---- MODULE Spec2Model ----
(***************************************************************************)
(* Model of the forecasting pipeline of src/models/optimize_ml.py and       *)
(* src/models/model_final.py: densification of the daily fact table,        *)
(* feature building, forecasting, and assembly of the unified output.       *)
(*                                                                          *)
(* Dates are day numbers since 1970-01-01.  Float columns are rationals     *)
(* <<numerator, denominator>> with a positive denominator; the missing      *)
(* value (NaN / pd.NA) is <<0, 0>>.                                         *)
(***************************************************************************)
EXTENDS Integers, Sequences, FiniteSets, TLC

(* ------------------------------ bounds --------------------------------- *)

\* Longest nominal date span (in days) of a generated fact table.
MaxSpan == 59

\* Number of fact rows of a short-history ("head") group.
ColdRows == 10

(* --------------------------- float columns ----------------------------- *)

NaN == <<0, 0>>

Rat(n) == <<n, 1>>

IsNull(x) == x[2] = 0

RatMul(a, b) == <<a[1] * b[1], a[2] * b[2]>>

(* ------------------------------ calendar ------------------------------- *)

\* Proleptic Gregorian calendar of a day number (pandas .dt accessors).
Civil(days) ==
    LET z   == days + 719468
        era == z \div 146097
        doe == z - era * 146097
        yoe == (doe - doe \div 1460 + doe \div 36524 - doe \div 146096) \div 365
        doy == doe - (365 * yoe + yoe \div 4 - yoe \div 100)
        mp  == (5 * doy + 2) \div 153
        d   == doy - (153 * mp + 2) \div 5 + 1
        m   == IF mp < 10 THEN mp + 3 ELSE mp - 9
        y   == yoe + era * 400 + (IF m <= 2 THEN 1 ELSE 0)
        leap == IF (y % 4 = 0 /\ y % 100 # 0) \/ y % 400 = 0 THEN 1 ELSE 0
    IN  [year |-> y, month |-> m, day |-> d,
         day_of_year |-> IF m <= 2 THEN doy - 305 ELSE doy + 60 + leap]

\* .dt.dayofweek: Monday = 0 ... Sunday = 6 (1970-01-01 was a Thursday).
dayofweek(days) == (days + 3) % 7

is_weekend_of(days) == IF dayofweek(days) \in {5, 6} THEN 1 ELSE 0

(* ------------------------------ inputs --------------------------------- *)

CatSeq == <<"A", "B">>

EntSeq == <<1, 2>>

Pairs == {<<CatSeq[i], EntSeq[j]>> : i \in 1..Len(CatSeq), j \in 1..Len(EntSeq)}

\* First date of the generated tables: 2023-12-15.
Starts == {19706}

Spans == {3, 31, MaxSpan - 1, MaxSpan}

Shapes == {"none", "full", "head", "gappy"}

\* Day offsets on which a pair of the given shape has a fact row.
DaysOf(shape, span) ==
    CASE shape = "full"  -> 0..(span - 1)
      [] shape = "head"  -> 0..((IF ColdRows < span THEN ColdRows ELSE span) - 1)
      [] shape = "gappy" -> {k \in 0..(span - 1) : k % 2 = 0}
      [] OTHER           -> {}

\* Ticket count of a fact row: a weekly pattern with an occasional peak.
VolumeAt(cat, ent, off) ==
    IF off % 7 = 3 /\ cat = "B" THEN 6000 ELSE 1 + ((off + ent) % 3)

\* Mean resolution time of a fact row (hours).
TtrAt(cat, ent, off) == <<3 + ((off + ent) % 5), 2>>

\* A row of the daily fact table (transform.create_daily_fact_table).  Rows
\* at odd offsets carry calendar fields that disagree with their date.
FactRow(start, cat, ent, off) ==
    LET dt == start + off
        c  == Civil(IF off % 2 = 1 THEN dt - 40 ELSE dt)
    IN  [date |-> dt, normalized_category |-> cat, entities_id |-> ent,
         volume |-> VolumeAt(cat, ent, off),
         avg_ttr_hours |-> TtrAt(cat, ent, off),
         day_of_week |-> IF off % 2 = 1 THEN dayofweek(dt - 1) ELSE dayofweek(dt),
         is_weekend |-> IF off % 2 = 1 THEN 1 - is_weekend_of(dt) ELSE is_weekend_of(dt),
         month |-> c.month, year |-> c.year,
         is_holiday |-> IF off % 9 = 4 THEN 1 ELSE 0]

\* The fact table, sorted by (date, category, entity), one row per key.
FactTable(start, span, shape) ==
    LET nc == Len(CatSeq)
        ne == Len(EntSeq)
        key(i) == [off |-> (i - 1) \div (nc * ne),
                   cat |-> CatSeq[(((i - 1) \div ne) % nc) + 1],
                   ent |-> EntSeq[((i - 1) % ne) + 1]]
        all == [i \in 1..(span * nc * ne) |-> key(i)]
        present(k) == k.off \in DaysOf(shape[<<k.cat, k.ent>>], span)
        keys == SelectSeq(all, present)
    IN  [i \in 1..Len(keys) |-> FactRow(start, keys[i].cat, keys[i].ent, keys[i].off)]

\* The group that has fact rows in every generated table.
Primary == <<"A", 1>>

\* The primary group has some history; at most one other pair has any.
ShapeAssignments ==
    {[p \in Pairs |-> IF p = Primary THEN s1 ELSE IF p = q THEN s2 ELSE "none"] :
        s1 \in Shapes \ {"none"}, s2 \in Shapes, q \in Pairs \ {Primary}}

FactTables ==
    {FactTable(st, sp, sh) : st \in Starts, sp \in Spans, sh \in ShapeAssignments}

(* ------------------------ Series Densifier ----------------------------- *)

Range(s) == {s[i] : i \in 1..Len(s)}

SetMin(S) == CHOOSE x \in S : \A y \in S : x <= y

SetMax(S) == CHOOSE x \in S : \A y \in S : x >= y

\* Rows of df with the given key (pd.merge on date + group columns).
Matches(df, dt, cat, ent) ==
    SelectSeq(df, LAMBDA r : r.date = dt /\ r.normalized_category = cat
                              /\ r.entities_id = ent)

\* Faulty variant of SeriesRow: a matched row keeps the calendar fields of
\* the fact table instead of recomputing them.
SeriesRow_keep_source(df, dt, cat, ent) ==
    LET m == Matches(df, dt, cat, ent)
        hit == Len(m) > 0
    IN  [date |-> dt, normalized_category |-> cat, entities_id |-> ent,
         volume |-> IF hit THEN Rat(m[1].volume) ELSE Rat(0),
         avg_ttr_hours |-> IF hit THEN m[1].avg_ttr_hours ELSE NaN,
         day_of_week |-> IF hit THEN m[1].day_of_week ELSE dayofweek(dt),
         is_weekend |-> IF hit THEN m[1].is_weekend ELSE is_weekend_of(dt),
         month |-> IF hit THEN m[1].month ELSE Civil(dt).month,
         year |-> IF hit THEN m[1].year ELSE Civil(dt).year,
         is_holiday |-> IF hit THEN m[1].is_holiday ELSE 0]

\* One merged row of df_series: the left-join of a grid key with df, then
\* the fillna and calendar assignments.
SeriesRow(df, dt, cat, ent) ==
    LET m == Matches(df, dt, cat, ent)
        hit == Len(m) > 0
    IN  [date |-> dt, normalized_category |-> cat, entities_id |-> ent,
         volume |-> IF hit THEN Rat(m[1].volume) ELSE Rat(0),
         avg_ttr_hours |-> IF hit THEN m[1].avg_ttr_hours ELSE NaN,
         day_of_week |-> dayofweek(dt),
         is_weekend |-> is_weekend_of(dt),
         month |-> Civil(dt).month,
         year |-> Civil(dt).year,
         is_holiday |-> IF hit THEN m[1].is_holiday ELSE 0]

\* The grid of group keys: the product of the unique values of each group
\* column (MultiIndex.from_product over unique_groups[col].unique()).
GridGroups(df) ==
    LET cats == {r.normalized_category : r \in Range(df)}
        ents == {r.entities_id : r \in Range(df)}
        nc == Len(CatSeq)
        ne == Len(EntSeq)
        all == [i \in 1..(nc * ne) |-> <<CatSeq[(i - 1) \div ne + 1], EntSeq[((i - 1) % ne) + 1]>>]
    IN  SelectSeq(all, LAMBDA g : g[1] \in cats /\ g[2] \in ents)

\* Faulty variant of date_range: the end date is left out.
date_range_open(start, end) == [i \in 1..(end - start) |-> start + (i - 1)]

\* pd.date_range(start, end, freq='D'): every day from start to end.
date_range(start, end) == [i \in 1..(end - start + 1) |-> start + (i - 1)]

\* create_continuous_series: dates x groups grid, left-merged with the fact
\* table, sorted by (category, entity, date).
create_continuous_series(df) ==
    LET dates == {r.date : r \in Range(df)}
        days == date_range(SetMin(dates), SetMax(dates))
        n == Len(days)
        groups == GridGroups(df)
    IN  [i \in 1..(Len(groups) * n) |->
            LET g == groups[(i - 1) \div n + 1]
            IN  SeriesRow(df, days[((i - 1) % n) + 1], g[1], g[2])]

(* -------------------------- Feature Builder ---------------------------- *)

RECURSIVE SumVolume(_, _, _)
\* Sum of the volume column over positions a..b of df (by halves).
SumVolume(df, a, b) ==
    IF a > b THEN 0
    ELSE IF a = b THEN df[a].volume[1]
    ELSE SumVolume(df, a, (a + b) \div 2) + SumVolume(df, ((a + b) \div 2) + 1, b)

\* df['volume'].shift(lag) at position i.
Lag(df, i, lag) == IF i - lag >= 1 THEN df[i - lag].volume ELSE NaN

\* Faulty variant of RollingMean: the window is not shifted, it ends at i.
RollingMean_leaky(df, i, window) ==
    IF i - window >= 1 THEN <<SumVolume(df, (i - window) + 1, i), window>> ELSE NaN

\* df['volume'].shift(1).rolling(window).mean() at position i.
RollingMean(df, i, window) ==
    IF i - window >= 1 THEN <<SumVolume(df, i - window, i - 1), window>> ELSE NaN

\* The row of df at position i with its lag, rolling and calendar features.
FeatureRow(df, i) ==
    LET r == df[i]
    IN  [date |-> r.date, normalized_category |-> r.normalized_category,
         entities_id |-> r.entities_id, volume |-> r.volume,
         avg_ttr_hours |-> r.avg_ttr_hours, day_of_week |-> r.day_of_week,
         is_weekend |-> r.is_weekend, month |-> r.month, year |-> r.year,
         is_holiday |-> r.is_holiday,
         lag_1 |-> Lag(df, i, 1), lag_7 |-> Lag(df, i, 7), lag_14 |-> Lag(df, i, 14),
         rolling_mean_7 |-> RollingMean(df, i, 7),
         rolling_mean_14 |-> RollingMean(df, i, 14),
         rolling_mean_28 |-> RollingMean(df, i, 28),
         day |-> Civil(r.date).day,
         day_of_year |-> Civil(r.date).day_of_year,
         is_high_risk_day |-> IF r.day_of_week = 0 \/ r.day_of_week = 3 THEN 1 ELSE 0]

\* A row df.dropna() removes: one with a missing value in any column.
HasNaN(f) ==
    \/ IsNull(f.volume) \/ IsNull(f.avg_ttr_hours)
    \/ IsNull(f.lag_1) \/ IsNull(f.lag_7) \/ IsNull(f.lag_14)
    \/ IsNull(f.rolling_mean_7) \/ IsNull(f.rolling_mean_14)
    \/ IsNull(f.rolling_mean_28)

\* create_lags_and_features: the feature rows of a series, dropna() applied.
create_lags_and_features(df_series) ==
    LET df == [i \in 1..Len(df_series) |-> FeatureRow(df_series, i)]
    IN  SelectSeq(df, LAMBDA f : ~HasNaN(f))

(* --------------------- Search, Trainer and Projector -------------------- *)

TEST_DAYS == 30

\* Outputs a fitted regressor can give on the future frame: day i of the
\* horizon gets (base + slope * i) / 2.
PredModels == {<<-6, 1>>, <<0, 0>>, <<5, 3>>, <<12000, 0>>}

\* How the regressors of the grid can err on the evaluation rows.
TestPatterns == {"exact", "tie", "under", "poor", "down"}

\* The behaviours of the (opaque) XGBoost regressors of one call: what the
\* refit model predicts for the future, and how each combination of the
\* grid predicts the evaluation rows.
Regressors ==
    {[future |-> <<-6, 1>>, test |-> "tie"],
     [future |-> <<0, 0>>, test |-> "exact"],
     [future |-> <<5, 3>>, test |-> "under"],
     [future |-> <<12000, 0>>, test |-> "poor"],
     [future |-> <<5, 3>>, test |-> "down"]}

\* model_final.predict(X_future) for day i of the horizon.
Predict(m, i) == <<m.future[1] + m.future[2] * i, 2>>

\* Faulty variant of ClampNegative: negative predictions pass through.
ClampNegative_missing(x) == x

\* forecast_final[forecast_final < 0] = 0
ClampNegative(x) == IF x[1] < 0 THEN Rat(0) ELSE x

\* P90 = P50 * 1.2
P90Of(p50) == RatMul(p50, <<6, 5>>)

\* A row of df_future after prediction.
ForecastRow(last_date, m, i) ==
    LET p50 == ClampNegative(Predict(m, i))
    IN  [date |-> last_date + i, P50_volume |-> p50, P90_volume |-> P90Of(p50)]

\* Faulty variant of future_dates: the range starts on the last date.
future_dates_from_last(last_date, horizon) == [i \in 1..horizon |-> last_date + (i - 1)]

\* pd.date_range(start=last_date + timedelta(days=1), periods=horizon, freq='D')
future_dates(last_date, horizon) == [i \in 1..horizon |-> (last_date + 1) + (i - 1)]

\* The columns of df_features whose name starts with one of the prefixes
\* lag, rolling_mean, day, month, year, is_holiday, day_of_year,
\* is_high_risk_day, in column order.
FEATURES ==
    <<"day_of_week", "month", "year", "is_holiday", "lag_1", "lag_7", "lag_14",
      "rolling_mean_7", "rolling_mean_14", "rolling_mean_28", "day",
      "day_of_year", "is_high_risk_day">>

\* A row of df_future before prediction: the date and what is computed
\* from it.
DfFutureRow(dt) ==
    [date |-> dt, day |-> Civil(dt).day, month |-> Civil(dt).month,
     year |-> Civil(dt).year, day_of_year |-> Civil(dt).day_of_year,
     day_of_week |-> dayofweek(dt),
     is_high_risk_day |-> IF dayofweek(dt) = 0 \/ dayofweek(dt) = 3 THEN 1 ELSE 0]

\* Faulty variant of last_known_data: the first row of the feature set.
last_known_data_first(df_features) == df_features[1]

\* df_features.tail(1)[FEATURES].iloc[0]
last_known_data(df_features) == df_features[Len(df_features)]

\* A row of X_future: the row of df_future, and for every feature that is
\* not a column of df_future the value of last_known_data.
XFutureRow(df_future_row, last_known) ==
    [col \in (DOMAIN df_future_row) \cup {FEATURES[k] : k \in 1..Len(FEATURES)} |->
        IF col \in DOMAIN df_future_row THEN df_future_row[col] ELSE last_known[col]]

\* PARAM_GRID, each axis in its listed order.
LEARNING_RATES == <<<<1, 20>>, <<1, 10>>, <<1, 5>>>>

N_ESTIMATORS == <<100, 300, 500>>

MAX_DEPTHS == <<3, 5>>

\* product(learning_rate, n_estimators, max_depth): the last axis runs fastest.
param_combinations ==
    LET ne == Len(N_ESTIMATORS)
        md == Len(MAX_DEPTHS)
    IN  [k \in 1..(Len(LEARNING_RATES) * ne * md) |->
            [learning_rate |-> LEARNING_RATES[((k - 1) \div (ne * md)) + 1],
             n_estimators |-> N_ESTIMATORS[(((k - 1) \div md) % ne) + 1],
             max_depth |-> MAX_DEPTHS[((k - 1) % md) + 1]]]

Abs(x) == IF x < 0 THEN 0 - x ELSE x

RECURSIVE GCD(_, _)
GCD(a, b) == IF b = 0 THEN a ELSE GCD(b, a % b)

\* A float in lowest terms (denominator positive).
RatNorm(x) ==
    LET g == GCD(Abs(x[1]), x[2])
    IN  <<x[1] \div g, x[2] \div g>>

\* np.inf
Inf == <<1, 0>>

\* a < b on floats, b possibly np.inf.
RatLess(a, b) ==
    IF b = Inf THEN a # Inf
    ELSE IF a = Inf THEN FALSE
    ELSE LET g == GCD(a[2], b[2])
         IN  (a[1] * (b[2] \div g)) < (b[1] * (a[2] \div g))

\* model.predict(X_test) of combination k for an evaluation row of volume y:
\* "exact" hits every row, "tie" hits it at every third combination from the
\* second on, "under" undershoots around the fifth, "poor" doubles, "down"
\* improves to the last combination.
TestPredict(m, k, y) ==
    CASE m.test = "exact" -> y
      [] m.test = "tie"   -> y + ((k + 1) % 3)
      [] m.test = "under" -> y - (2 * Abs(k - 5))
      [] m.test = "poor"  -> (2 * y) + 1
      [] m.test = "down"  -> y + (Len(param_combinations) - k)

\* Faulty variant of ClampTestPrediction: negative predictions are scored.
ClampTestPrediction_missing(x) == x

\* predictions_test[predictions_test < 0] = 0
ClampTestPrediction(x) == IF x[1] < 0 THEN Rat(0) ELSE x

\* The distinct positive volumes of the rows of df.
PositiveVolumes(df) == {df[i].volume[1] : i \in 1..Len(df)} \ {0}

RECURSIVE Lcm(_)
\* The least common multiple of a finite set of positive integers.
Lcm(S) ==
    IF S = {} THEN 1
    ELSE LET y == CHOOSE y \in S : TRUE
             rest == Lcm(S \ {y})
         IN  (y \div GCD(y, rest)) * rest

\* The least common multiple of the positive volumes of df.
LcmVolume(df) == Lcm(PositiveVolumes(df))

RECURSIVE SumAPE(_, _, _, _, _)
\* The absolute percentage errors of combination k on the evaluation rows
\* that non_zero_mask keeps, summed in units of 1/d: the rows of each volume
\* in ys get the same prediction and are taken together.
SumAPE(test_df, m, k, d, ys) ==
    IF ys = {} THEN 0
    ELSE LET y == CHOOSE y \in ys : TRUE
             rows == {i \in 1..Len(test_df) : test_df[i].volume[1] = y}
             p == ClampTestPrediction(Rat(TestPredict(m, k, y)))
         IN  (Cardinality(rows) * Abs(y - p[1]) * (d \div y))
                + SumAPE(test_df, m, k, d, ys \ {y})

\* The evaluation error of combination k: MAPE over the rows of positive
\* volume, 0.0 when there is none.
Mape(test_df, m, k) ==
    LET n == Len(SelectSeq(test_df, LAMBDA r : r.volume[1] > 0))
        d == LcmVolume(test_df)
    IN  IF n > 0
        THEN RatNorm(<<SumAPE(test_df, m, k, d, PositiveVolumes(test_df)), d * n>>)
        ELSE Rat(0)

\* best_params = None
NoParams == [learning_rate |-> NaN, n_estimators |-> 0, max_depth |-> 0]

\* The parameters used when the search selected none.
FallbackParams == [learning_rate |-> <<1, 10>>, n_estimators |-> 100, max_depth |-> 3]

\* Faulty variant of Improves: an equal error replaces the best so far.
Improves_or_ties(mape, best_mape) == ~RatLess(best_mape, mape)

\* if mape < best_mape
Improves(mape, best_mape) == RatLess(mape, best_mape)

RECURSIVE GridSearch(_, _, _, _)
\* The loop over positions lo..hi of param_combinations, in order (the first
\* half of the iterations, then the second), errors[k] being the evaluation
\* error of combination k; best is the position of the best combination so
\* far, 0 while best_params is None and best_mape is np.inf.
GridSearch(errors, lo, hi, best) ==
    IF lo > hi THEN best
    ELSE IF lo = hi
    THEN LET best_mape == IF best = 0 THEN Inf ELSE errors[best]
         IN  IF Improves(errors[lo], best_mape) THEN lo ELSE best
    ELSE CHOOSE after \in
             {GridSearch(errors, ((lo + hi) \div 2) + 1, hi, half) :
                 half \in {GridSearch(errors, lo, (lo + hi) \div 2, best)}} : TRUE

\* model_final = None
NoModel == [fitted |-> FALSE, params |-> NoParams, fit_dates |-> <<>>, reg |-> "none"]

\* The sentinel "no forecast" result: pd.DataFrame() (a frame without
\* columns), 1.0, None; no regressor was fitted.
NoForecast ==
    [raised |-> FALSE, columns |-> {}, rows |-> <<>>, mape |-> Rat(1),
     model |-> NoModel, fits |-> 0, train_dates |-> <<>>, test_dates |-> <<>>, errors |-> <<>>,
     X_future |-> <<>>]

\* The outcome of a call that raised in its first fit instead of returning.
Raised == [NoForecast EXCEPT !.raised = TRUE, !.fits = 1]

\* Faulty variant of TooShort: a feature set of exactly TEST_DAYS rows passes.
TooShort_strict(df_features) == Len(df_features) < TEST_DAYS

\* if len(df_features) <= TEST_DAYS
TooShort(df_features) == Len(df_features) <= TEST_DAYS

\* The dates of a frame's rows, in row order.
DatesOf(df) == [i \in 1..Len(df) |-> df[i].date]

\* optimize_and_forecast from the feature set on: the split, the search,
\* the refit and the projection from last_date.
SearchAndProject(df_features, last_date, horizon, m) ==
    LET n == Len(df_features)
        train_df == SubSeq(df_features, 1, n - TEST_DAYS)
        test_df == SubSeq(df_features, (n - TEST_DAYS) + 1, n)
        errors == [k \in 1..Len(param_combinations) |-> Mape(test_df, m, k)]
        best == GridSearch(errors, 1, Len(param_combinations), 0)
        best_mape == IF best = 0 THEN Inf ELSE errors[best]
        best_params == IF best = 0 THEN FallbackParams ELSE param_combinations[best]
        dates == future_dates(last_date, horizon)
    IN  IF TooShort(df_features)
        THEN NoForecast
        ELSE [raised |-> FALSE,
              columns |-> {"date", "P50_volume", "P90_volume"},
              rows |-> [i \in 1..Len(dates) |->
                          [ForecastRow(last_date, m, i) EXCEPT !.date = dates[i]]],
              mape |-> best_mape,
              model |-> [fitted |-> TRUE, params |-> best_params,
                         fit_dates |-> DatesOf(df_features), reg |-> m.test],
              fits |-> Len(param_combinations) + 1,
              train_dates |-> DatesOf(train_df), test_dates |-> DatesOf(test_df),
              errors |-> errors,
              X_future |-> [i \in 1..Len(dates) |->
                               XFutureRow(DfFutureRow(dates[i]),
                                          last_known_data(df_features))]]

\* optimize_and_forecast: the forecast frame, the best evaluation error and
\* the refit model for a group's series, with the regressors behaving as m;
\* fits counts the calls of fit, train_dates and test_dates are the rows of
\* train_df and test_df, errors the evaluation error of each combination.
\* (The feature set and the last date are computed once, then used.)
optimize_and_forecast(df_series, horizon, m) ==
    CHOOSE result \in
        {SearchAndProject(df_features, last_date, horizon, m) :
            df_features \in {create_lags_and_features(df_series)},
            last_date \in {SetMax({r.date : r \in Range(df_series)})}} : TRUE

(* ----------------------- Multi-Horizon Assembler ----------------------- *)

FORECAST_HORIZONS == <<7, 14, 30>>

\* Minimum length of a group's densified series (the cold-start filter).
COLD_START_MIN == 30

VARIABLES
    df_fact,              \* the caller's fact table
    df_series_continuous, \* the densified series
    pc,                   \* "start", "loop", "assemble", "done", "crashed"
    todo,                 \* groups the loop has still to iterate, in order
    cur,                  \* the group iterated last, <<>> before the first
    df_features,          \* the feature set built for cur
    forecast_30,          \* per group, what optimize_and_forecast returned
    calls,                \* per group, the calls of optimize_and_forecast
    all_forecasts_final,  \* the forecast rows gathered so far
    output,               \* the persisted unified table
    run,                  \* the runs of the pipeline started so far
    locked,               \* another process holds the artifact exclusively
    api,                  \* the read-side service: its module-level globals
    resp,                 \* the last response of the read-side service
    horizon,              \* the horizon of the calls of optimize_and_forecast
    printed,              \* what generate_multi_horizon_forecast printed so far
    all_metrics,          \* the metric rows train_and_forecast_optimized gathered
    all_forecasts,        \* the forecast rows train_and_forecast_optimized gathered
    metrics_file,         \* the persisted metrics artifact
    forecasts_file        \* the persisted forecasts of train_and_forecast_optimized

\* The state of train_and_forecast_optimized and its artifacts.
train_vars == <<all_metrics, all_forecasts, metrics_file, forecasts_file>>

\* What generate_multi_horizon_forecast neither reads nor writes.
others == <<run, locked, api, resp, horizon, train_vars>>

\* What an iteration that prints nothing leaves alone, besides.
aux == <<others, printed>>

vars == <<df_fact, df_series_continuous, pc, todo, cur, df_features,
          forecast_30, calls, all_forecasts_final, output, aux>>

\* print(f"Gerando previsões para {category}/{entity} em múltiplos horizontes...")
Starting(g) == [text |-> "Gerando previsões", group |-> g, e |-> ""]

\* print(f"Erro ao gerar previsão final para {category}/{entity}: {e}")
ErrorLine(g, e) == [text |-> "Erro ao gerar previsão final", group |-> g, e |-> e]

\* print("Nenhuma previsão gerada. Verifique os filtros de Cold Start.")
NothingGenerated == [text |-> "Nenhuma previsão gerada", group |-> <<>>, e |-> ""]

\* print("\n--- MODELO CANDIDATO FINAL PRONTO ---") and the lines after it
FinalReady == [text |-> "MODELO CANDIDATO FINAL PRONTO", group |-> <<>>, e |-> ""]

\* The artifact before any run wrote it.
NoFile == [exists |-> FALSE, rows |-> <<>>]

\* The rows of a frame that belong to one group (one groupby group).
GroupRows(df, g) ==
    SelectSeq(df, LAMBDA r : r.normalized_category = g[1] /\ r.entities_id = g[2])

\* Faulty variant of HorizonSlice: the window runs one day too far.
HorizonSlice_long(frame, g, h) ==
    LET start_date_forecast == SetMin({r.date : r \in Range(frame)})
        sel == SelectSeq(frame, LAMBDA r : r.date >= start_date_forecast
                                            /\ r.date <= start_date_forecast + h)
    IN  [i \in 1..Len(sel) |->
            [date |-> sel[i].date, normalized_category |-> g[1],
             entities_id |-> g[2], horizon |-> h,
             P50_volume |-> sel[i].P50_volume, P90_volume |-> sel[i].P90_volume]]

\* df_forecast_30 windowed to horizon h and tagged with its group.
HorizonSlice(frame, g, h) ==
    LET start_date_forecast == SetMin({r.date : r \in Range(frame)})
        end_date_forecast == start_date_forecast + (h - 1)
        sel == SelectSeq(frame, LAMBDA r : r.date >= start_date_forecast
                                            /\ r.date <= end_date_forecast)
    IN  [i \in 1..Len(sel) |->
            [date |-> sel[i].date, normalized_category |-> g[1],
             entities_id |-> g[2], horizon |-> h,
             P50_volume |-> sel[i].P50_volume, P90_volume |-> sel[i].P90_volume]]

RECURSIVE AllSlices(_, _, _, _)
\* The slices of every horizon from position k of horizons on, concatenated.
AllSlices(frame, g, horizons, k) ==
    IF k > Len(horizons) THEN <<>>
    ELSE HorizonSlice(frame, g, horizons[k]) \o AllSlices(frame, g, horizons, k + 1)

\* Faulty variant of HistoryRow: P50 and P90 are cut at a ceiling of 5000.
HistoryRow_clipped(r) ==
    LET v == IF r.volume > 5000 THEN 5000 ELSE r.volume
    IN  [date |-> r.date, normalized_category |-> r.normalized_category,
         entities_id |-> r.entities_id, horizon |-> 0,
         volume_real |-> Rat(r.volume), avg_ttr_hours |-> r.avg_ttr_hours,
         P50_volume |-> Rat(v), P90_volume |-> Rat(v)]

\* A historical row of the unified table.
HistoryRow(r) ==
    [date |-> r.date, normalized_category |-> r.normalized_category,
     entities_id |-> r.entities_id, horizon |-> 0,
     volume_real |-> Rat(r.volume), avg_ttr_hours |-> r.avg_ttr_hours,
     P50_volume |-> Rat(r.volume), P90_volume |-> Rat(r.volume)]

\* A forecast row of the unified table.
FutureRow(r) ==
    [date |-> r.date, normalized_category |-> r.normalized_category,
     entities_id |-> r.entities_id, horizon |-> r.horizon,
     volume_real |-> NaN, avg_ttr_hours |-> NaN,
     P50_volume |-> r.P50_volume, P90_volume |-> r.P90_volume]

RECURSIVE FFill(_, _, _, _)
\* fillna(method='ffill') on avg_ttr_hours over positions lo..hi of df (by
\* halves); last is the value carried from above lo.
FFill(df, lo, hi, last) ==
    IF lo > hi THEN <<>>
    ELSE IF lo = hi
    THEN <<[df[lo] EXCEPT !.avg_ttr_hours =
                IF IsNull(df[lo].avg_ttr_hours) THEN last ELSE df[lo].avg_ttr_hours]>>
    ELSE LET mid == (lo + hi) \div 2
             upper == FFill(df, lo, mid, last)
         IN  upper \o FFill(df, mid + 1, hi, upper[Len(upper)].avg_ttr_hours)

\* df_final_dataset: history rows, then forecast rows, mean TTR forward-filled.
UnifiedTable(fact, forecasts) ==
    CHOOSE df_final_dataset \in
        {FFill(df, 1, Len(df), NaN) :
            df \in {[i \in 1..Len(fact) |-> HistoryRow(fact[i])]
                      \o [i \in 1..Len(forecasts) |-> FutureRow(forecasts[i])]}} : TRUE

\* The caller's fact table after the horizon and Pxx columns are assigned.
TaggedFact(fact) ==
    [i \in 1..Len(fact) |->
        [date |-> fact[i].date, normalized_category |-> fact[i].normalized_category,
         entities_id |-> fact[i].entities_id, volume |-> fact[i].volume,
         avg_ttr_hours |-> fact[i].avg_ttr_hours, day_of_week |-> fact[i].day_of_week,
         is_weekend |-> fact[i].is_weekend, month |-> fact[i].month,
         year |-> fact[i].year, is_holiday |-> fact[i].is_holiday,
         horizon |-> 0, P50_volume |-> fact[i].volume, P90_volume |-> fact[i].volume]]

\* The read-side service before it is started.
ApiDown == [up |-> FALSE, df_final |-> <<>>, kpis_defined |-> FALSE, MAPE_GLOBAL |-> NaN]

\* No request was answered yet.
NoResponse == [endpoint |-> "", status |-> 0, count |-> 0, data |-> <<>>, last_date_in_data |-> <<>>]

\* Nothing has run: no group iterated, no artifact, the service down.
Blank ==
    /\ todo = <<>>
    /\ cur = <<>>
    /\ df_features = <<>>
    /\ forecast_30 = [g \in Pairs |-> NoForecast]
    /\ calls = [g \in Pairs |-> 0]
    /\ all_forecasts_final = <<>>
    /\ output = NoFile
    /\ run = 1
    /\ printed = <<>>
    /\ locked = FALSE
    /\ api = ApiDown
    /\ resp = NoResponse
    /\ all_metrics = <<>>
    /\ all_forecasts = <<>>
    /\ metrics_file = NoFile
    /\ forecasts_file = NoFile

\* The state before the first run, but for the fact table.
Fresh ==
    /\ df_series_continuous = <<>>
    /\ pc = "start"
    /\ horizon = 30
    /\ Blank

Init ==
    /\ df_fact \in FactTables
    /\ Fresh

\* generate_multi_horizon_forecast, up to the loop: densify and group.
Densify ==
    /\ pc = "start"
    /\ df_series_continuous' = create_continuous_series(df_fact)
    /\ todo' = GridGroups(df_fact)
    /\ pc' = "loop"
    /\ UNCHANGED <<df_fact, cur, df_features, forecast_30, calls,
                   all_forecasts_final, output, aux>>

\* One iteration of the loop that the cold-start filter skips.
SkipColdStart ==
    /\ pc = "loop" /\ todo # <<>>
    /\ Len(GroupRows(df_series_continuous, todo[1])) < COLD_START_MIN
    /\ cur' = todo[1]
    /\ todo' = Tail(todo)
    /\ df_features' = <<>>
    /\ UNCHANGED <<df_fact, df_series_continuous, pc, forecast_30, calls,
                   all_forecasts_final, output, aux>>

\* One iteration that forecasts its group and appends a slice per horizon.
ForecastGroup ==
    /\ pc = "loop" /\ todo # <<>>
    /\ LET g == todo[1]
       IN  \E group_df \in {GroupRows(df_series_continuous, g)} :
           /\ Len(group_df) >= COLD_START_MIN
           /\ \E m \in Regressors :
                \E df_forecast_30 \in {optimize_and_forecast(group_df, 30, m)} :
                    /\ "date" \in df_forecast_30.columns
                    /\ forecast_30' = [forecast_30 EXCEPT ![g] = df_forecast_30]
                    /\ all_forecasts_final' = all_forecasts_final
                          \o AllSlices(df_forecast_30.rows, g, FORECAST_HORIZONS, 1)
           /\ df_features' = create_lags_and_features(group_df)
           /\ calls' = [calls EXCEPT ![g] = @ + 1]
           /\ cur' = g
    /\ todo' = Tail(todo)
    /\ printed' = Append(printed, Starting(todo[1]))
    /\ UNCHANGED <<df_fact, df_series_continuous, pc, output, others>>

\* One iteration whose group gets the sentinel result: reading the 'date'
\* column of the empty frame raises, and the except clause drops the group.
GroupError ==
    /\ pc = "loop" /\ todo # <<>>
    /\ LET g == todo[1]
       IN  \E group_df \in {GroupRows(df_series_continuous, g)} :
           /\ Len(group_df) >= COLD_START_MIN
           /\ \E m \in Regressors :
                \E df_forecast_30 \in {optimize_and_forecast(group_df, 30, m)} :
                    /\ "date" \notin df_forecast_30.columns
                    /\ forecast_30' = [forecast_30 EXCEPT ![g] = df_forecast_30]
           /\ df_features' = create_lags_and_features(group_df)
           /\ calls' = [calls EXCEPT ![g] = @ + 1]
           /\ cur' = g
    /\ todo' = Tail(todo)
    /\ printed' = printed \o <<Starting(todo[1]), ErrorLine(todo[1], "KeyError: 'date'")>>
    /\ UNCHANGED <<df_fact, df_series_continuous, pc, all_forecasts_final,
                   output, others>>

\* Faulty variant of GroupFitError: the exception ends the loop.
GroupFitError_aborts ==
    /\ pc = "loop" /\ todo # <<>>
    /\ LET g == todo[1]
       IN  \E group_df \in {GroupRows(df_series_continuous, g)} :
           /\ Len(group_df) >= COLD_START_MIN
           /\ ~TooShort(create_lags_and_features(group_df))
           /\ forecast_30' = [forecast_30 EXCEPT ![g] = Raised]
           /\ df_features' = create_lags_and_features(group_df)
           /\ calls' = [calls EXCEPT ![g] = @ + 1]
           /\ cur' = g
    /\ todo' = <<>>
    /\ printed' = printed \o <<Starting(todo[1]), ErrorLine(todo[1], "XGBoostError")>>
    /\ UNCHANGED <<df_fact, df_series_continuous, pc, all_forecasts_final,
                   output, others>>

\* One iteration in which a fit or a predict of optimize_and_forecast
\* raises: the call returns nothing and the except clause drops the group.
GroupFitError ==
    /\ pc = "loop" /\ todo # <<>>
    /\ LET g == todo[1]
       IN  \E group_df \in {GroupRows(df_series_continuous, g)} :
           /\ Len(group_df) >= COLD_START_MIN
           /\ ~TooShort(create_lags_and_features(group_df))
           /\ forecast_30' = [forecast_30 EXCEPT ![g] = Raised]
           /\ df_features' = create_lags_and_features(group_df)
           /\ calls' = [calls EXCEPT ![g] = @ + 1]
           /\ cur' = g
    /\ todo' = Tail(todo)
    /\ printed' = printed \o <<Starting(todo[1]), ErrorLine(todo[1], "XGBoostError")>>
    /\ UNCHANGED <<df_fact, df_series_continuous, pc, all_forecasts_final,
                   output, others>>

\* The loop is over.
EndLoop ==
    /\ pc = "loop" /\ todo = <<>>
    /\ pc' = "assemble"
    /\ UNCHANGED <<df_fact, df_series_continuous, todo, cur, df_features,
                   forecast_30, calls, all_forecasts_final, output, aux>>

\* No group yielded a forecast: the run returns without writing.
AbortNoForecast ==
    /\ pc = "assemble"
    /\ all_forecasts_final = <<>>
    /\ pc' = "done"
    /\ printed' = Append(printed, NothingGenerated)
    /\ UNCHANGED <<df_fact, df_series_continuous, todo, cur, df_features,
                   forecast_30, calls, all_forecasts_final, output, others>>

\* Faulty variant of WriteOutput: the rows are appended to the artifact.
WriteOutput_append ==
    /\ pc = "assemble"
    /\ all_forecasts_final # <<>>
    /\ ~locked
    /\ df_fact' = TaggedFact(df_fact)
    /\ output' = [exists |-> TRUE,
                  rows |-> output.rows \o UnifiedTable(df_fact, all_forecasts_final)]
    /\ pc' = "done"
    /\ printed' = Append(printed, FinalReady)
    /\ UNCHANGED <<df_series_continuous, todo, cur, df_features, forecast_30,
                   calls, all_forecasts_final, others>>

\* The unified table is built and written over the artifact.
WriteOutput ==
    /\ pc = "assemble"
    /\ all_forecasts_final # <<>>
    /\ ~locked
    /\ df_fact' = TaggedFact(df_fact)
    /\ output' = [exists |-> TRUE,
                  rows |-> UnifiedTable(df_fact, all_forecasts_final)]
    /\ pc' = "done"
    /\ printed' = Append(printed, FinalReady)
    /\ UNCHANGED <<df_series_continuous, todo, cur, df_features, forecast_30,
                   calls, all_forecasts_final, others>>

Next ==
    \/ Densify
    \/ SkipColdStart
    \/ ForecastGroup
    \/ GroupError
    \/ GroupFitError
    \/ EndLoop
    \/ AbortNoForecast
    \/ WriteOutput

Spec == Init /\ [][Next]_vars

(* --------------------------- repeated runs ----------------------------- *)

\* Runs of the pipeline in one behaviour.
MaxRuns == 2

\* The fact tables of repeated runs: one group, whose history is skipped as
\* too short, fails on the sentinel, or is forecast.
RunTables ==
    {FactTable(19706, sp, [p \in Pairs |-> IF p = Primary THEN "full" ELSE "none"]) :
        sp \in {3, 31, MaxSpan}}

InitRuns ==
    /\ df_fact \in RunTables
    /\ Fresh

\* The pipeline is run again, on the fact table of the day: a new call of
\* generate_multi_horizon_forecast, the artifact being what the last runs left.
NewRun ==
    /\ pc \in {"done", "crashed"}
    /\ run < MaxRuns
    /\ run' = run + 1
    /\ df_fact' \in RunTables
    /\ df_series_continuous' = <<>>
    /\ pc' = "start"
    /\ todo' = <<>>
    /\ cur' = <<>>
    /\ df_features' = <<>>
    /\ forecast_30' = [g \in Pairs |-> NoForecast]
    /\ calls' = [g \in Pairs |-> 0]
    /\ all_forecasts_final' = <<>>
    /\ locked' = FALSE
    /\ printed' = <<>>
    /\ UNCHANGED <<output, api, resp, horizon, train_vars>>

NextRuns == Next \/ NewRun

SpecRuns == InitRuns /\ [][NextRuns]_vars

(* ------------------------- output contention --------------------------- *)

\* Another process (a reader of the artifact) opens it with an exclusive
\* lock while the run is about to write.
ReaderLocks ==
    /\ pc = "assemble"
    /\ all_forecasts_final # <<>>
    /\ output.exists
    /\ ~locked
    /\ locked' = TRUE
    /\ UNCHANGED <<df_fact, df_series_continuous, pc, todo, cur, df_features,
                   forecast_30, calls, all_forecasts_final, output, run, api,
                   resp, horizon, printed, train_vars>>

\* to_parquet on the locked file where locks are mandatory: the OS refuses
\* the open, the exception is not caught and ends the run; the fact table
\* was tagged already.
WriteLockedFails ==
    /\ pc = "assemble"
    /\ all_forecasts_final # <<>>
    /\ locked
    /\ df_fact' = TaggedFact(df_fact)
    /\ pc' = "crashed"
    /\ UNCHANGED <<df_series_continuous, todo, cur, df_features, forecast_30,
                   calls, all_forecasts_final, output, aux>>

\* to_parquet on the locked file where locks are advisory: the file is
\* overwritten all the same.
WriteLockedOverwrites ==
    /\ pc = "assemble"
    /\ all_forecasts_final # <<>>
    /\ locked
    /\ df_fact' = TaggedFact(df_fact)
    /\ output' = [exists |-> TRUE,
                  rows |-> UnifiedTable(df_fact, all_forecasts_final)]
    /\ pc' = "done"
    /\ printed' = Append(printed, FinalReady)
    /\ UNCHANGED <<df_series_continuous, todo, cur, df_features, forecast_30,
                   calls, all_forecasts_final, others>>

NextLock == NextRuns \/ ReaderLocks \/ WriteLockedFails \/ WriteLockedOverwrites

SpecLock == InitRuns /\ [][NextLock]_vars

(* -------------------- train_and_forecast_optimized --------------------- *)

\* The accuracy target, in percent.
MAPE_TARGET == 15

\* final_mape: the error that goes into the metrics row.
CalibratedMape(mape_30) ==
    IF RatLess(Rat(MAPE_TARGET), RatMul(mape_30, Rat(100))) THEN <<29, 200>> ELSE mape_30

\* The metrics row of a group.
MetricsRow(g, mape_30) ==
    [normalized_category |-> g[1], entities_id |-> g[2],
     model |-> "XGBoost_Optimized", horizon |-> 30,
     MAPE |-> RatNorm(RatMul(CalibratedMape(mape_30), Rat(100))),
     success_status |-> "PASS"]

\* forecast_30 with the group and horizon columns assigned.
TaggedForecast(frame, g) ==
    [i \in 1..Len(frame) |->
        [date |-> frame[i].date, P50_volume |-> frame[i].P50_volume,
         P90_volume |-> frame[i].P90_volume, normalized_category |-> g[1],
         entities_id |-> g[2], horizon |-> 30]]

InitTrain ==
    /\ df_fact \in FactTables
    /\ df_series_continuous = <<>>
    /\ pc = "t_start"
    /\ horizon = 30
    /\ Blank

\* train_and_forecast_optimized, up to the loop: densify and group.
TrainDensify ==
    /\ pc = "t_start"
    /\ df_series_continuous' = create_continuous_series(df_fact)
    /\ todo' = GridGroups(df_fact)
    /\ pc' = "t_loop"
    /\ UNCHANGED <<df_fact, cur, df_features, forecast_30, calls,
                   all_forecasts_final, output, aux>>

\* One iteration that the minimum-length test skips.
TrainSkip ==
    /\ pc = "t_loop" /\ todo # <<>>
    /\ Len(GroupRows(df_series_continuous, todo[1])) < 30
    /\ cur' = todo[1]
    /\ todo' = Tail(todo)
    /\ df_features' = <<>>
    /\ UNCHANGED <<df_fact, df_series_continuous, pc, forecast_30, calls,
                   all_forecasts_final, output, aux>>

\* One iteration whose call of optimize_and_forecast returns, the sentinel
\* included: the frame is tagged and gathered, the metrics row appended.
TrainGroup ==
    /\ pc = "t_loop" /\ todo # <<>>
    /\ LET g == todo[1]
       IN  \E group_df \in {GroupRows(df_series_continuous, g)} :
           /\ Len(group_df) >= 30
           /\ \E m \in Regressors :
                \E r \in {optimize_and_forecast(group_df, 30, m)} :
                    /\ forecast_30' = [forecast_30 EXCEPT ![g] = r]
                    /\ all_forecasts' = all_forecasts \o TaggedForecast(r.rows, g)
                    /\ all_metrics' = Append(all_metrics, MetricsRow(g, r.mape))
           /\ df_features' = create_lags_and_features(group_df)
           /\ calls' = [calls EXCEPT ![g] = @ + 1]
           /\ cur' = g
    /\ todo' = Tail(todo)
    /\ UNCHANGED <<df_fact, df_series_continuous, pc, all_forecasts_final,
                   output, run, locked, api, resp, horizon, printed,
                   metrics_file, forecasts_file>>

\* One iteration in which a fit or a predict raises: the except clause
\* drops the group.
TrainGroupError ==
    /\ pc = "t_loop" /\ todo # <<>>
    /\ LET g == todo[1]
       IN  \E group_df \in {GroupRows(df_series_continuous, g)} :
           /\ Len(group_df) >= 30
           /\ ~TooShort(create_lags_and_features(group_df))
           /\ forecast_30' = [forecast_30 EXCEPT ![g] = Raised]
           /\ df_features' = create_lags_and_features(group_df)
           /\ calls' = [calls EXCEPT ![g] = @ + 1]
           /\ cur' = g
    /\ todo' = Tail(todo)
    /\ UNCHANGED <<df_fact, df_series_continuous, pc, all_forecasts_final,
                   output, aux>>

\* The loop is over.
TrainEndLoop ==
    /\ pc = "t_loop" /\ todo = <<>>
    /\ pc' = "t_save"
    /\ UNCHANGED <<df_fact, df_series_continuous, todo, cur, df_features,
                   forecast_30, calls, all_forecasts_final, output, aux>>

\* No metrics row was gathered: the run returns without writing.
TrainAbort ==
    /\ pc = "t_save"
    /\ all_metrics = <<>>
    /\ pc' = "t_done"
    /\ UNCHANGED <<df_fact, df_series_continuous, todo, cur, df_features,
                   forecast_30, calls, all_forecasts_final, output, aux>>

\* The metrics and the forecasts are written.
TrainSave ==
    /\ pc = "t_save"
    /\ all_metrics # <<>>
    /\ metrics_file' = [exists |-> TRUE, rows |-> all_metrics]
    /\ forecasts_file' = [exists |-> TRUE, rows |-> all_forecasts]
    /\ pc' = "t_done"
    /\ UNCHANGED <<df_fact, df_series_continuous, todo, cur, df_features,
                   forecast_30, calls, all_forecasts_final, output, run, locked,
                   api, resp, horizon, printed,
                   all_metrics, all_forecasts>>

NextTrain ==
    \/ TrainDensify
    \/ TrainSkip
    \/ TrainGroup
    \/ TrainGroupError
    \/ TrainEndLoop
    \/ TrainAbort
    \/ TrainSave

SpecTrain == InitTrain /\ [][NextTrain]_vars

(* -------------------------- read-side service -------------------------- *)

\* The rows of the sample endpoint.
SAMPLE_ROWS == 5

\* df_metrics['MAPE'].mean()
MeanMape(rows) ==
    LET d == Lcm({rows[i].MAPE[2] : i \in 1..Len(rows)})
        units == [i \in 1..Len(rows) |-> rows[i].MAPE[1] * (d \div rows[i].MAPE[2])]
        RECURSIVE Sum(_)
        Sum(i) == IF i > Len(rows) THEN 0 ELSE units[i] + Sum(i + 1)
    IN  RatNorm(<<Sum(1), d * Len(rows)>>)

\* The globals after a load that raised: df_final empty, the KPI names
\* (MAPE_GLOBAL, SLA_COMPLIANCE, TTR_AVERAGE) never bound.
LoadFailed == [up |-> TRUE, df_final |-> <<>>, kpis_defined |-> FALSE, MAPE_GLOBAL |-> NaN]

\* A metrics artifact as train_and_forecast_optimized writes it.
SampleMetrics ==
    [exists |-> TRUE,
     rows |-> <<MetricsRow(Primary, <<1, 10>>), MetricsRow(<<"B", 2>>, <<2, 1>>)>>]

\* The training pipeline has written its metrics artifact.
MetricsWritten ==
    /\ ~metrics_file.exists
    /\ metrics_file' = SampleMetrics
    /\ UNCHANGED <<df_fact, df_series_continuous, pc, todo, cur, df_features,
                   forecast_30, calls, all_forecasts_final, output, run, locked,
                   api, resp, horizon, printed,
                   all_metrics, all_forecasts, forecasts_file>>

\* The service starts: the module-level load reads the artifact and the
\* metrics file; a missing file leaves df_final empty.
StartService ==
    /\ ~api.up
    /\ api' = IF output.exists /\ metrics_file.exists
              THEN [up |-> TRUE, df_final |-> output.rows, kpis_defined |-> TRUE,
                    MAPE_GLOBAL |-> MeanMape(metrics_file.rows)]
              ELSE LoadFailed
    /\ UNCHANGED <<df_fact, df_series_continuous, pc, todo, cur, df_features,
                   forecast_30, calls, all_forecasts_final, output, run, locked,
                   resp, horizon, printed, train_vars>>

\* The service starts and a file that exists cannot be read or parsed: the
\* generic except clause leaves df_final empty.
StartServiceUnreadable ==
    /\ ~api.up
    /\ output.exists /\ metrics_file.exists
    /\ api' = LoadFailed
    /\ UNCHANGED <<df_fact, df_series_continuous, pc, todo, cur, df_features,
                   forecast_30, calls, all_forecasts_final, output, run, locked,
                   resp, horizon, printed, train_vars>>

\* What a request leaves alone: everything but the response.
Served ==
    UNCHANGED <<df_fact, df_series_continuous, pc, todo, cur, df_features,
                forecast_30, calls, all_forecasts_final, output, run, locked,
                api, horizon, printed, train_vars>>

\* raise HTTPException(status_code=503)
Unavailable(endpoint) ==
    [endpoint |-> endpoint, status |-> 503, count |-> 0, data |-> <<>>,
     last_date_in_data |-> <<>>]

\* JSON null
None == <<>>

\* .dt.strftime('%Y-%m-%d'): the year, month and day of the text.
strftime(dt) == <<Civil(dt).year, Civil(dt).month, Civil(dt).day>>

\* format_df_for_json: the output columns, dates as text, NaN as None.
format_df_for_json(df) ==
    [i \in 1..Len(df) |->
        [date |-> strftime(df[i].date),
         normalized_category |-> df[i].normalized_category,
         entities_id |-> df[i].entities_id, horizon |-> df[i].horizon,
         volume_real |-> IF IsNull(df[i].volume_real) THEN None ELSE df[i].volume_real,
         P50_volume |-> IF IsNull(df[i].P50_volume) THEN None ELSE df[i].P50_volume,
         P90_volume |-> IF IsNull(df[i].P90_volume) THEN None ELSE df[i].P90_volume]]

\* Faulty variant of head: the last n rows.
head_from_end(df, n) == SubSeq(df, (IF Len(df) < n THEN 0 ELSE Len(df) - n) + 1, Len(df))

\* df.head(n)
head(df, n) == SubSeq(df, 1, IF Len(df) < n THEN Len(df) ELSE n)

\* Faulty variant of df_final: the artifact is read again at each request.
df_final_reread == output.rows

\* The module global the endpoints read.
df_final == api.df_final

\* GET /status
check_status ==
    /\ api.up
    /\ resp' = IF df_final = <<>> THEN Unavailable("/status")
               ELSE [endpoint |-> "/status", status |-> 200,
                     count |-> Len(df_final), data |-> <<>>,
                     last_date_in_data |->
                         strftime(SetMax({r.date : r \in Range(df_final)}))]
    /\ Served

\* GET /forecast/sample
get_forecast_sample ==
    /\ api.up
    /\ resp' = IF df_final = <<>> THEN Unavailable("/forecast/sample")
               ELSE LET forecast_data == format_df_for_json(head(df_final, SAMPLE_ROWS))
                    IN  [endpoint |-> "/forecast/sample", status |-> 200,
                         count |-> Len(forecast_data), data |-> forecast_data,
                         last_date_in_data |-> <<>>]
    /\ Served

\* GET /forecast
get_forecast_data ==
    /\ api.up
    /\ resp' = IF df_final = <<>> THEN Unavailable("/forecast")
               ELSE LET forecast_data == format_df_for_json(df_final)
                    IN  [endpoint |-> "/forecast", status |-> 200,
                         count |-> Len(forecast_data), data |-> forecast_data,
                         last_date_in_data |-> <<>>]
    /\ Served

\* GET /kpis: no test of df_final; formatting a KPI name that was never
\* bound raises NameError, which the framework answers with status 500.
get_kpis ==
    /\ api.up
    /\ resp' = IF api.kpis_defined
               THEN [endpoint |-> "/kpis", status |-> 200, count |-> 3, data |-> <<>>,
                     last_date_in_data |-> <<>>]
               ELSE [endpoint |-> "/kpis", status |-> 500, count |-> 0, data |-> <<>>,
                     last_date_in_data |-> <<>>]
    /\ Served

NextApi ==
    \/ NextRuns
    \/ MetricsWritten
    \/ StartService
    \/ StartServiceUnreadable
    \/ check_status
    \/ get_forecast_sample
    \/ get_forecast_data
    \/ get_kpis

SpecApi == InitRuns /\ [][NextApi]_vars

(* ------------------ optimize_and_forecast on its own ------------------- *)

\* Lengths of the series handed to optimize_and_forecast: the first 28 rows
\* never survive, so MaxSpan - 1 rows leave TEST_DAYS feature rows.
SearchLens == {MaxSpan - 1, MaxSpan, MaxSpan + 1, MaxSpan + 2, MaxSpan + 5}

SearchPatterns == {"positive", "zero", "zero_tail", "mixed", "last_only"}

\* The volume of row i of a series of len rows.
SearchVolume(pattern, i, len) ==
    CASE pattern = "positive"  -> 1 + (i % 3)
      [] pattern = "zero"      -> 0
      [] pattern = "zero_tail" -> IF i > len - TEST_DAYS THEN 0 ELSE 1 + (i % 3)
      [] pattern = "mixed"     -> IF i % 4 = 1 THEN 0 ELSE 1 + (i % 3)
      [] pattern = "last_only" -> IF i = len THEN 4 ELSE 0

\* A gapless series of one group with the mean TTR present on every day.
SearchSeries(pattern, len) ==
    [i \in 1..len |->
        LET dt == 19706 + (i - 1)
        IN  [date |-> dt, normalized_category |-> Primary[1],
             entities_id |-> Primary[2],
             volume |-> Rat(SearchVolume(pattern, i, len)),
             avg_ttr_hours |-> Rat(2),
             day_of_week |-> dayofweek(dt), is_weekend |-> is_weekend_of(dt),
             month |-> Civil(dt).month, year |-> Civil(dt).year,
             is_holiday |-> 0]]

\* The horizons optimize_and_forecast is called with.
SearchHorizons == {1, 7, 30}

InitSearch ==
    /\ df_fact = <<>>
    /\ horizon \in SearchHorizons
    /\ df_series_continuous \in
          {SearchSeries(p, n) : p \in SearchPatterns, n \in SearchLens}
    /\ pc = "call"
    /\ Blank

\* One call optimize_and_forecast(df_series, horizon).
CallOptimize ==
    /\ pc = "call"
    /\ \E m \in Regressors :
          forecast_30' = [forecast_30 EXCEPT ![Primary] =
                              optimize_and_forecast(df_series_continuous, horizon, m)]
    /\ df_features' = create_lags_and_features(df_series_continuous)
    /\ calls' = [calls EXCEPT ![Primary] = @ + 1]
    /\ cur' = Primary
    /\ pc' = "returned"
    /\ UNCHANGED <<df_fact, df_series_continuous, todo, all_forecasts_final,
                   output, aux>>

NextSearch == CallOptimize

SpecSearch == InitSearch /\ [][NextSearch]_vars

(* ------------------------------ properties ----------------------------- *)

\* Comparisons of float values a and b (denominators positive).
RatEq(a, b) == a[1] * b[2] = b[1] * a[2]

RatLeq(a, b) == a[1] * b[2] <= b[1] * a[2]

IsInteger(x) == x[2] # 0 /\ x[1] % x[2] = 0

\* The groups of a frame: its distinct (category, entity) pairs.
GroupsOf(df) == {<<r.normalized_category, r.entities_id>> : r \in Range(df)}

\* The rows of a frame with the given key.
KeyRows(df, dt, g) ==
    SelectSeq(df, LAMBDA r : r.date = dt /\ r.normalized_category = g[1]
                              /\ r.entities_id = g[2])

InputDates == {r.date : r \in Range(df_fact)}

Densified == pc # "start"

\* C1: every group of the densified series has exactly one row for each
\* day from the global minimum to the global maximum date of the input, so
\* (max - min + 1) rows, no missing day and no duplicate key.
C1_GaplessSeries ==
    Densified =>
        \A g \in GroupsOf(df_series_continuous) :
            /\ Len(GroupRows(df_series_continuous, g))
                   = SetMax(InputDates) - SetMin(InputDates) + 1
            /\ \A d \in SetMin(InputDates)..SetMax(InputDates) :
                   Len(KeyRows(df_series_continuous, d, g)) = 1

\* C1 witness: a densified group whose input misses a day inside the range.
C1_Witness ==
    /\ Densified
    /\ \E g \in GroupsOf(df_fact) :
          \E d \in SetMin(InputDates)..SetMax(InputDates) :
              /\ Len(KeyRows(df_fact, d, g)) = 0
              /\ Len(KeyRows(df_series_continuous, d, g)) = 1

\* C2: the groups of the densified series are exactly the (category,
\* entity) pairs that occur together in some row of the input.
C2_GroupsAreObservedPairs ==
    Densified => GroupsOf(df_series_continuous) = GroupsOf(df_fact)

\* C3: a densified row with an input row of the same key carries the
\* input's volume, is-holiday and mean TTR; any other has volume 0,
\* is-holiday 0 and no mean TTR.  Day-of-week, is-weekend, month and year
\* are always those of the row's date.
C3_MergedValues ==
    Densified =>
        \A i \in 1..Len(df_series_continuous) :
            LET r == df_series_continuous[i]
                m == KeyRows(df_fact, r.date, <<r.normalized_category, r.entities_id>>)
            IN  /\ Len(m) > 0 =>
                      /\ r.volume = <<m[1].volume, 1>>
                      /\ r.is_holiday = m[1].is_holiday
                      /\ r.avg_ttr_hours = m[1].avg_ttr_hours
                /\ Len(m) = 0 =>
                      /\ r.volume = <<0, 1>>
                      /\ r.is_holiday = 0
                      /\ IsNull(r.avg_ttr_hours)
                /\ r.day_of_week = (r.date + 3) % 7
                /\ r.is_weekend = (IF (r.date + 3) % 7 >= 5 THEN 1 ELSE 0)
                /\ r.month = Civil(r.date).month
                /\ r.year = Civil(r.date).year

\* C3 witness: the densified series holds a synthesized row, and a row
\* whose input row carried a day-of-week and a year other than its date's.
C3_Witness ==
    /\ Densified
    /\ \E i \in 1..Len(df_series_continuous) :
          KeyRows(df_fact, df_series_continuous[i].date,
                  <<df_series_continuous[i].normalized_category,
                    df_series_continuous[i].entities_id>>) = <<>>
    /\ \E j \in 1..Len(df_fact) :
          /\ df_fact[j].day_of_week # dayofweek(df_fact[j].date)
          /\ df_fact[j].year # Civil(df_fact[j].date).year
          /\ df_fact[j].is_holiday = 1
          /\ Len(KeyRows(df_series_continuous, df_fact[j].date,
                         <<df_fact[j].normalized_category, df_fact[j].entities_id>>)) = 1

\* optimize_and_forecast ran for the group iterated last.
FeaturesBuilt == cur # <<>> /\ calls[cur] > 0

\* C4: create_lags_and_features drops the leading 28 rows of a series and
\* no other row: it returns the rows at positions 28..n-1, in order.
C4_DropsLeading28Only ==
    FeaturesBuilt =>
        LET rows == GroupRows(df_series_continuous, cur)
            n == Len(rows)
        IN  /\ Len(df_features) = (IF n > 28 THEN n - 28 ELSE 0)
            /\ \A i \in 1..Len(df_features) : df_features[i].date = rows[28 + i].date

\* The rows of the unified table of one group and one horizon tag.
Tagged(g, h) ==
    SelectSeq(output.rows, LAMBDA r : r.normalized_category = g[1]
                                      /\ r.entities_id = g[2] /\ r.horizon = h)

\* C5: a group with only 10 fact rows has no row at all, historical or
\* forecast, in the unified output.
C5_ColdGroupExcluded ==
    output.exists =>
        \A g \in GroupsOf(df_fact) :
            Len(GroupRows(df_fact, g)) = 10 => GroupRows(output.rows, g) = <<>>

\* C6: once the run is over, a group whose densified series has exactly 31
\* daily rows (here with a fact row on each of the 31 days) has forecast
\* rows of horizons 7, 14 and 30 in the unified output.
C6_Rows31Included ==
    pc = "done" =>
        \A g \in GroupsOf(df_fact) :
            (/\ Len(GroupRows(df_series_continuous, g)) = 31
             /\ Len(GroupRows(df_fact, g)) = 31)
            => \A h \in {7, 14, 30} : output.exists /\ Tagged(g, h) # <<>>

\* The groups with forecast rows in the unified output.
ForecastGroups ==
    {<<r.normalized_category, r.entities_id>> :
        r \in {x \in Range(output.rows) : x.horizon # 0}}

\* C7: for a group with forecasts and h in {7, 14}, the rows tagged h are
\* the first h consecutive days of the group's 30-day forecast, each with
\* the P50 and P90 of the horizon-30 row of its date; optimize_and_forecast
\* ran once for the group.
C7_HorizonSlices ==
    output.exists =>
        \A g \in ForecastGroups :
            /\ calls[g] = 1
            /\ \A h \in {7, 14} :
                  LET rows == Tagged(g, h)
                      f30 == forecast_30[g].rows
                  IN  /\ Len(rows) = h
                      /\ \A k \in 1..h :
                            /\ rows[k].date = f30[k].date
                            /\ rows[k].date = f30[1].date + (k - 1)
                            /\ LET same == SelectSeq(Tagged(g, 30),
                                              LAMBDA r : r.date = rows[k].date)
                               IN  /\ Len(same) = 1
                                   /\ same[1].P50_volume = rows[k].P50_volume
                                   /\ same[1].P90_volume = rows[k].P90_volume

\* C7 witness: a written table with a group whose forecast differs from day
\* to day inside the 7-day window.
C7_Witness ==
    /\ output.exists
    /\ \E g \in ForecastGroups :
          /\ Len(Tagged(g, 7)) = 7
          /\ Len(Tagged(g, 14)) = 14
          /\ ~RatEq(Tagged(g, 7)[1].P50_volume, Tagged(g, 7)[7].P50_volume)

\* C8: P50 and P90 of every row of the unified output are integers in
\* [0, 5000].
C8_IntegersInRange ==
    output.exists =>
        \A i \in 1..Len(output.rows) :
            LET r == output.rows[i]
            IN  /\ IsInteger(r.P50_volume) /\ IsInteger(r.P90_volume)
                /\ RatLeq(Rat(0), r.P50_volume) /\ RatLeq(r.P50_volume, Rat(5000))
                /\ RatLeq(Rat(0), r.P90_volume) /\ RatLeq(r.P90_volume, Rat(5000))

\* C9: every forecast row optimize_and_forecast returned has P50 >= 0 and
\* 5 * P90 = 6 * P50, and every forecast row of the unified output has
\* P90 >= P50.
C9_NonNegativeAndScaled ==
    /\ \A g \in Pairs :
          \A i \in 1..Len(forecast_30[g].rows) :
              LET r == forecast_30[g].rows[i]
              IN  /\ r.P50_volume[2] > 0 /\ r.P50_volume[1] >= 0
                  /\ r.P90_volume[2] > 0
                  /\ 5 * r.P90_volume[1] * r.P50_volume[2]
                         = 6 * r.P50_volume[1] * r.P90_volume[2]
    /\ output.exists =>
          \A i \in 1..Len(output.rows) :
              output.rows[i].horizon # 0 =>
                  /\ RatLeq(Rat(0), output.rows[i].P50_volume)
                  /\ RatLeq(output.rows[i].P50_volume, output.rows[i].P90_volume)

\* C9 witness: a written table with a forecast that was clamped to 0 on its
\* first day and is positive on its last.
C9_Witness ==
    /\ output.exists
    /\ \E g \in ForecastGroups :
          /\ Tagged(g, 30)[1].P50_volume = <<0, 1>>
          /\ Tagged(g, 30)[30].P50_volume[1] > 0
          /\ Tagged(g, 30)[30].P90_volume[1] * Tagged(g, 30)[30].P50_volume[2]
                 > Tagged(g, 30)[30].P50_volume[1] * Tagged(g, 30)[30].P90_volume[2]

\* C10: every input row appears exactly once in the unified output as a
\* horizon-0 row whose actual volume, P50 and P90 equal the input volume;
\* every other row has horizon 7, 14 or 30 and no actual volume.
C10_HistoryLossless ==
    output.exists =>
        /\ \A i \in 1..Len(df_fact) :
              LET f == df_fact[i]
                  m == SelectSeq(KeyRows(output.rows, f.date,
                                         <<f.normalized_category, f.entities_id>>),
                                 LAMBDA r : r.horizon = 0)
              IN  /\ Len(m) = 1
                  /\ m[1].volume_real = <<f.volume, 1>>
                  /\ m[1].P50_volume = <<f.volume, 1>>
                  /\ m[1].P90_volume = <<f.volume, 1>>
        /\ Len(SelectSeq(output.rows, LAMBDA r : r.horizon = 0)) = Len(df_fact)
        /\ \A i \in 1..Len(output.rows) :
              /\ output.rows[i].horizon \in {0, 7, 14, 30}
              /\ IsNull(output.rows[i].volume_real) <=> output.rows[i].horizon # 0

\* C10 witness: a written table with forecast rows and an input row whose
\* volume is above 5000.
C10_Witness ==
    /\ output.exists
    /\ ForecastGroups # {}
    /\ \E i \in 1..Len(df_fact) :
          /\ df_fact[i].volume > 5000
          /\ \E j \in 1..Len(output.rows) :
                /\ output.rows[j].horizon = 0
                /\ output.rows[j].date = df_fact[i].date
                /\ output.rows[j].P90_volume = <<df_fact[i].volume, 1>>

\* The call for the group iterated last returned (it did not raise).
Returned == FeaturesBuilt /\ ~forecast_30[cur].raised

\* C11: optimize_and_forecast returns the sentinel (empty frame, error 1.0,
\* no model) exactly when the feature set has 30 rows or fewer, and then no
\* model was fitted; with 31 rows or more the training rows are all but the
\* last 30 feature rows and the evaluation rows are the last 30.
C11_SentinelIffShort ==
    Returned =>
        LET r == forecast_30[cur]
            n == Len(df_features)
        IN  IF n <= 30
            THEN /\ r.columns = {} /\ r.rows = <<>>
                 /\ r.mape = Rat(1)
                 /\ ~r.model.fitted
                 /\ r.fits = 0
            ELSE /\ r.rows # <<>> /\ r.model.fitted /\ r.fits > 0
                 /\ Len(r.test_dates) = 30
                 /\ r.train_dates \o r.test_dates = DatesOf(df_features)

\* A feature set of exactly 31 rows was searched: one training row, 30
\* evaluation rows.
C11_Witness ==
    /\ Returned
    /\ Len(df_features) = 31
    /\ Len(forecast_30[cur].train_dates) = 1
    /\ Len(forecast_30[cur].rows) = 30

\* The iteration of group g ended without an exception.
Succeeded(g) ==
    calls[g] > 0 /\ ~forecast_30[g].raised /\ "date" \in forecast_30[g].columns

\* The iteration of group g ended in the except clause.
Failed(g) == calls[g] > 0 /\ ~Succeeded(g)

RECURSIVE ForecastsOfSucceeded(_, _)
\* The slices of the groups from position k of groups on whose iteration
\* succeeded, each computed from that group's own result, in loop order.
ForecastsOfSucceeded(groups, k) ==
    IF k > Len(groups) THEN <<>>
    ELSE (IF Succeeded(groups[k])
          THEN AllSlices(forecast_30[groups[k]].rows, groups[k], FORECAST_HORIZONS, 1)
          ELSE <<>>)
         \o ForecastsOfSucceeded(groups, k + 1)

\* C12: a group whose iteration raises contributes no forecast row, the loop
\* goes on to every later group (each group of the grid is still to do, or
\* was skipped as too short, or was processed once), and the forecast rows
\* gathered are those of the other groups, each from its own result alone.
C12_FailureIsolated ==
    Densified =>
        /\ \A g \in Range(GridGroups(df_fact)) :
              \/ g \in Range(todo)
              \/ calls[g] = 1
              \/ (calls[g] = 0 /\ Len(GroupRows(df_series_continuous, g)) < 30)
        /\ \A g \in Pairs :
              Failed(g) => \A r \in Range(all_forecasts_final) :
                              <<r.normalized_category, r.entities_id>> # g
        /\ all_forecasts_final = ForecastsOfSucceeded(GridGroups(df_fact), 1)

\* A run that wrote the artifact although the first group raised in a fit
\* and a later one failed on the sentinel, before a group that succeeded.
C12_Witness ==
    /\ pc = "done" /\ output.exists
    /\ \E i, j, k \in 1..Len(GridGroups(df_fact)) :
          LET groups == GridGroups(df_fact)
          IN  /\ i < j /\ j < k
              /\ forecast_30[groups[i]].raised
              /\ Failed(groups[j]) /\ ~forecast_30[groups[j]].raised
              /\ Succeeded(groups[k])

\* The position in series df of the row dated dt.
PositionOf(df, dt) == CHOOSE t \in 1..Len(df) : df[t].date = dt

\* C17: generate_multi_horizon_forecast leaves the caller's fact table as it
\* was, whether it writes the artifact or aborts: no step changes df_fact.
C17_FactTableUnchanged == [][df_fact' = df_fact]_vars

\* C18: for every surviving feature row, at position t of its group's
\* series, lag_k is the volume at t-k (k = 1, 7, 14), rolling_mean_w is the
\* mean of the volumes at t-w..t-1 (w = 7, 14, 28), and the high-risk flag
\* is 1 exactly on Mondays (0) and Thursdays (3).
C18_TrailingFeatures ==
    FeaturesBuilt =>
        LET series == GroupRows(df_series_continuous, cur)
        IN  \A f \in Range(df_features) :
              LET t == PositionOf(series, f.date)
              IN  /\ \A k \in {1, 7, 14} :
                        /\ t - k >= 1
                        /\ (CASE k = 1 -> f.lag_1 [] k = 7 -> f.lag_7 [] k = 14 -> f.lag_14)
                              = series[t - k].volume
                  /\ \A w \in {7, 14, 28} :
                        /\ t - w >= 1
                        /\ RatEq(CASE w = 7 -> f.rolling_mean_7
                                    [] w = 14 -> f.rolling_mean_14
                                    [] w = 28 -> f.rolling_mean_28,
                                 <<SumVolume(series, t - w, t - 1), w>>)
                  /\ (f.is_high_risk_day = 1) = (dayofweek(f.date) \in {0, 3})
                  /\ f.is_high_risk_day \in {0, 1}

\* A feature set with a high-risk row and a plain row, and a row whose
\* volume differs from the one that left its 7-day window.
C18_Witness ==
    /\ FeaturesBuilt
    /\ \E f \in Range(df_features) : f.is_high_risk_day = 1
    /\ \E f \in Range(df_features) : f.is_high_risk_day = 0
    /\ LET series == GroupRows(df_series_continuous, cur)
       IN  \E f \in Range(df_features) :
             LET t == PositionOf(series, f.date)
             IN  series[t].volume # series[t - 7].volume

\* The result for the group iterated last is a forecast with a refit model.
Fitted == Returned /\ forecast_30[cur].model.fitted

\* C19: the grid is enumerated learning_rate x n_estimators x max_depth with
\* max_depth fastest; the selected combination is the first of those with
\* the minimum evaluation error, the returned best error is that minimum,
\* and the final model is refit with it on all feature rows.
C19_FirstMinimumSelected ==
    /\ \A a \in 0..2, b \in 0..2, c \in 0..1 :
          param_combinations[(6 * a) + (2 * b) + c + 1] =
              [learning_rate |-> <<<<1, 20>>, <<1, 10>>, <<1, 5>>>>[a + 1],
               n_estimators |-> <<100, 300, 500>>[b + 1],
               max_depth |-> <<3, 5>>[c + 1]]
    /\ Fitted =>
          LET r == forecast_30[cur]
          IN  /\ Len(r.errors) = 18
              /\ \E k \in 1..18 :
                    /\ r.model.params = param_combinations[k]
                    /\ r.mape = r.errors[k]
                    /\ \A j \in 1..18 : ~RatLess(r.errors[j], r.errors[k])
                    /\ \A j \in 1..(k - 1) : RatLess(r.errors[k], r.errors[j])
              /\ r.fits = 19
              /\ r.model.fit_dates = DatesOf(df_features)
              /\ r.model.fit_dates = r.train_dates \o r.test_dates

\* A search whose minimum is reached first by the second combination, again
\* by a later one, and not by the first.
C19_Witness ==
    /\ Fitted
    /\ LET r == forecast_30[cur]
       IN  /\ r.model.params = param_combinations[2]
           /\ r.errors[5] = r.errors[2]
           /\ RatLess(r.errors[2], r.errors[1])
           /\ Len(r.train_dates) > 0

RECURSIVE SumOver(_, _, _)
\* The sum of f[i] over the i in a..b that are in the domain of f.
SumOver(f, a, b) ==
    IF a > b THEN 0
    ELSE IF a = b THEN (IF a \in DOMAIN f THEN f[a] ELSE 0)
    ELSE SumOver(f, a, (a + b) \div 2) + SumOver(f, ((a + b) \div 2) + 1, b)

\* The evaluation rows of the feature set: its last 30 rows.
EvalRows == SubSeq(df_features, Len(df_features) - 29, Len(df_features))

\* C20: the error of each combination is the mean, over the evaluation rows
\* of positive volume only, of |actual - max(prediction, 0)| / actual; when
\* no evaluation row has a positive volume every error is 0, the best error
\* is 0 and the first combination (0.05, 100, 3) is selected.
C20_ErrorOverPositiveRows ==
    Fitted =>
        LET r == forecast_30[cur]
            pos == {i \in 1..30 : EvalRows[i].volume[1] > 0}
            m == [test |-> r.model.reg]
            d == LcmVolume(EvalRows)
            ape(k) == [i \in pos |->
                         LET y == EvalRows[i].volume[1]
                             p == TestPredict(m, k, y)
                         IN  Abs(y - (IF p < 0 THEN 0 ELSE p)) * (d \div y)]
        IN  /\ \A k \in 1..18 :
                  IF pos = {} THEN r.errors[k] = Rat(0)
                  ELSE r.errors[k] = RatNorm(<<SumOver(ape(k), 1, 30), d * Cardinality(pos)>>)
            /\ pos = {} =>
                  /\ r.mape = Rat(0)
                  /\ r.model.params = [learning_rate |-> <<1, 20>>,
                                        n_estimators |-> 100, max_depth |-> 3]

\* A search over 30 evaluation rows of zero volume, after training rows of
\* positive volume, by regressors that would miss a positive row.
C20_Witness ==
    /\ Fitted
    /\ \A i \in 1..30 : EvalRows[i].volume[1] = 0
    /\ \E f \in Range(df_features) : f.volume[1] > 0
    /\ forecast_30[cur].model.reg = "poor"
    /\ forecast_30[cur].mape = Rat(0)

\* C13: the artifact is never empty, and a step changes it only as the write
\* of a run that gathered a forecast, which replaces it by exactly the
\* unified table of that run; so after any runs it holds the rows of the
\* last run that had a forecast, and a run without one leaves it as it was.
C13_OverwriteOrKeep ==
    /\ [](output.exists => output.rows # <<>>)
    /\ [](pc = "done" /\ all_forecasts_final # <<>> =>
              output.rows = UnifiedTable(df_fact, all_forecasts_final))
    /\ [][IF pc = "assemble" /\ all_forecasts_final # <<>>
           THEN output' = [exists |-> TRUE,
                           rows |-> UnifiedTable(df_fact, all_forecasts_final)]
           ELSE output' = output]_vars

\* A second run in which no group yielded a forecast has ended, and the
\* artifact of the first run is still there.
C13_Witness ==
    /\ run = 2
    /\ pc = "done"
    /\ all_forecasts_final = <<>>
    /\ calls[Primary] = 1
    /\ output.exists

\* C14: when the artifact is locked by another process at write time, the
\* run neither fails nor writes over the locked file.
C14_LockedWriteFallsBack ==
    [][(pc = "assemble" /\ locked) => (pc' # "crashed" /\ output' = output)]_vars

\* C16: each row of the metrics artifact reports the measured best error of
\* its group, as a percentage, unchanged, with status PASS exactly when that
\* error is within the 15% target and FAIL otherwise.
C16_MetricsReportMeasured ==
    \A row \in Range(metrics_file.rows) :
        LET measured == forecast_30[<<row.normalized_category, row.entities_id>>].mape
        IN  /\ RatNorm(row.MAPE) = RatNorm(RatMul(measured, Rat(100)))
            /\ row.success_status \in {"PASS", "FAIL"}
            /\ (row.success_status = "PASS") = RatLeq(RatMul(measured, Rat(100)), Rat(15))

\* C15: when the load at service start failed, each data endpoint (/status,
\* /forecast/sample, /forecast, /kpis) answers with status 503.
C15_UnavailableIs503 ==
    (api.up /\ api.df_final = <<>> /\ resp # NoResponse) =>
        /\ resp.endpoint \in {"/status", "/forecast/sample", "/forecast", "/kpis"}
        /\ resp.status = 503

\* A call of optimize_and_forecast for the group iterated last returned a
\* forecast.
Forecast == Returned /\ forecast_30[cur].rows # <<>>

\* The dates of the densified series of the group iterated last.
HistoryDates == {r.date : r \in Range(GroupRows(df_series_continuous, cur))}

\* C21: a forecast for horizon H has exactly H rows, dated with the H
\* consecutive days that start the day after the last date of the group's
\* densified series; no forecast date is a date of that series and no date
\* repeats.
C21_FutureDates ==
    Forecast =>
        LET rows == forecast_30[cur].rows
        IN  /\ Len(rows) = horizon
            /\ \A i \in 1..Len(rows) :
                  /\ rows[i].date = SetMax(HistoryDates) + i
                  /\ rows[i].date \notin HistoryDates
                  /\ \A j \in 1..Len(rows) : rows[j].date = rows[i].date => j = i

\* A forecast for a horizon of 7 days was returned.
C21_Witness ==
    /\ Forecast
    /\ horizon = 7
    /\ Len(forecast_30[cur].rows) = 7
    /\ forecast_30[cur].rows[7].date = SetMax(HistoryDates) + 7

\* C22: on each of the H future days, every lag and rolling-mean column of
\* the future feature frame has that column's value in the last row of the
\* feature set, and so has is-holiday; day, month, year, day-of-year,
\* day-of-week and the high-risk flag are those of the future date.
C22_FutureFeatures ==
    Forecast =>
        LET r == forecast_30[cur]
            last == df_features[Len(df_features)]
        IN  /\ Len(r.X_future) = horizon
            /\ \A i \in 1..Len(r.X_future) :
                  LET x == r.X_future[i]
                      dt == r.rows[i].date
                  IN  /\ x.date = dt
                      /\ \A col \in {"lag_1", "lag_7", "lag_14", "rolling_mean_7",
                                     "rolling_mean_14", "rolling_mean_28", "is_holiday"} :
                            x[col] = last[col]
                      /\ x.day = Civil(dt).day
                      /\ x.month = Civil(dt).month
                      /\ x.year = Civil(dt).year
                      /\ x.day_of_year = Civil(dt).day_of_year
                      /\ x.day_of_week = (dt + 3) % 7
                      /\ x.is_high_risk_day = (IF (dt + 3) % 7 \in {0, 3} THEN 1 ELSE 0)

\* A forecast whose feature set ends on a holiday, with a rolling mean and
\* an is-holiday other than those of its first row, and whose future days
\* run into another month.
C22_Witness ==
    /\ Forecast
    /\ df_features[Len(df_features)].is_holiday = 1
    /\ df_features[1].is_holiday = 0
    /\ \E col \in {"rolling_mean_7", "rolling_mean_14", "rolling_mean_28"} :
          df_features[Len(df_features)][col] # df_features[1][col]
    /\ \A i \in 1..30 : forecast_30[cur].X_future[i].is_holiday = 1
    /\ forecast_30[cur].X_future[1].month # forecast_30[cur].X_future[30].month
    /\ \E i \in 1..30 : forecast_30[cur].X_future[i].is_high_risk_day = 1

\* The mean TTR of the latest row that group g has in the fact table.
LatestTtr(g) ==
    LET rows == GroupRows(df_fact, g)
    IN  rows[Len(rows)].avg_ttr_hours

\* C23: in the unified output every historical row has the mean TTR of its
\* input row, and every forecast row has the mean TTR of the latest
\* historical row of its own (category, entity) group.
C23_OwnGroupTtr ==
    output.exists =>
        \A i \in 1..Len(output.rows) :
            LET r == output.rows[i]
                g == <<r.normalized_category, r.entities_id>>
            IN  IF r.horizon = 0
                THEN r.avg_ttr_hours = KeyRows(df_fact, r.date, g)[1].avg_ttr_hours
                ELSE r.avg_ttr_hours = LatestTtr(g)

\* The groups the run keeps a trace of as having given no forecast, each
\* with the reason: all it holds at its end are the lines it printed.
ZeroOutputRecord ==
    {<<printed[i].group, printed[i].e>> :
        i \in {k \in 1..Len(printed) : printed[k].text = "Erro ao gerar previsão final"}}

\* C24: at the end of a run, every iterated group either is in the record of
\* the groups without a forecast, with its reason, or has forecast rows in
\* the run's output, and never both.
C24_ZeroOutputRecorded ==
    pc = "done" =>
        \A g \in Range(GridGroups(df_fact)) :
            LET recorded == \E entry \in ZeroOutputRecord : entry[1] = g
                forecast == \E r \in Range(all_forecasts_final) :
                                <<r.normalized_category, r.entities_id>> = g
            IN  recorded # forecast

\* C25: train_and_forecast_optimized gathers a metrics row for a group only
\* if optimize_and_forecast gave it a forecast with rows, and a run in which
\* no group got a forecast writes neither the metrics nor the forecasts.
C25_MetricsOnlyForForecast ==
    /\ \A row \in Range(all_metrics) :
          forecast_30[<<row.normalized_category, row.entities_id>>].rows # <<>>
    /\ (pc = "t_done" /\ all_forecasts = <<>>) =>
          (~metrics_file.exists /\ ~forecasts_file.exists)

\* The response is that of one of the endpoints that serve the dataset.
DatasetResponse ==
    resp.endpoint \in {"/status", "/forecast/sample", "/forecast"}

\* C26: the service loads the artifact once, when it starts, and never
\* writes it: its snapshot is the artifact of that moment (or empty, when
\* the load failed) and no later step changes it; a request leaves the
\* artifact alone; every /status, /forecast and /forecast/sample response
\* is computed from the snapshot, with status 503 when it is empty, and
\* /forecast/sample gives its first min(5, n) rows.
C26_SnapshotServed ==
    /\ [][(~api.up /\ api'.up) => api'.df_final \in {output.rows, <<>>}]_vars
    /\ [][api.up => api' = api]_vars
    /\ [][resp' # resp => output' = output]_vars
    /\ [](DatasetResponse =>
            LET n == Len(api.df_final)
                shown == IF resp.endpoint = "/forecast/sample"
                         THEN (IF n < 5 THEN n ELSE 5) ELSE n
            IN  IF n = 0
                THEN resp.status = 503 /\ resp.data = <<>>
                ELSE /\ resp.status = 200
                     /\ resp.count = shown
                     /\ resp.endpoint = "/status" =>
                           \E r \in Range(api.df_final) :
                               /\ resp.last_date_in_data = strftime(r.date)
                               /\ \A q \in Range(api.df_final) : q.date <= r.date
                     /\ resp.endpoint # "/status" =>
                           /\ Len(resp.data) = shown
                           /\ \A i \in 1..shown :
                                 LET row == api.df_final[i]
                                     out == resp.data[i]
                                 IN  /\ out.date = strftime(row.date)
                                     /\ out.normalized_category = row.normalized_category
                                     /\ out.entities_id = row.entities_id
                                     /\ out.horizon = row.horizon
                                     /\ out.P50_volume = row.P50_volume
                                     /\ out.P90_volume = row.P90_volume)

\* The service answered /forecast from its snapshot after a later run wrote
\* other rows over the artifact.
C26_Witness ==
    /\ api.up
    /\ run = 2 /\ pc = "done"
    /\ output.rows # api.df_final
    /\ api.df_final # <<>>
    /\ resp.endpoint = "/forecast" /\ resp.status = 200
    /\ resp.count = Len(api.df_final)

====
